---- MODULE Spec2Model ----
(***************************************************************************)
(* The concurrency engine of lwan (src/lwan.c): the acceptor               *)
(* (lwan_main_loop, _push_request_fd, _schedule_request), the worker       *)
(* reactors (_thread) with their death queues, and the connection slot     *)
(* table (lwan_t.requests, _reset_request).                                *)
(*                                                                         *)
(* One step of a worker is one return of its epoll_wait: a timeout (0      *)
(* events), one ready event (n_fds = 1; a longer batch is the same loop    *)
(* body run once more) or an error.  One step of the acceptor is one       *)
(* accept4.  lwan_shutdown runs in the main thread after SIGINT has made   *)
(* lwan_main_loop return.                                                  *)
(***************************************************************************)
EXTENDS Integers, Sequences, FiniteSets, TLC

(* ------------------------- program constants -------------------------- *)

\* thread.count: sysconf(_SC_NPROCESSORS_ONLN), or 2 when that fails.
NWorkers == 2

(* ------------------------------ bounds -------------------------------- *)

\* r.rlim_cur after lwan_init has raised it: the size of the slot table.
RlimCur == 5

\* Descriptors an accepted connection can get: the top MaxOpen numbers of the
\* table (the lower ones are held by the process itself: listening socket,
\* epoll sets, stdio).
MaxOpen == 2

\* config.keep_alive_timeout, in ticks.
KeepAliveTimeout == 2

\* Cap of a worker's death_time (an unsigned int in the code).
MaxTick == 3

\* Cap of the number of successful accept4 calls.
MaxAccepts == 6

\* Cap of the number of successful accept4 calls in the fair specification.
FairAccepts == 3

\* Width of the dispatcher's `static int counter` (32 in the code).
IntBits == 3

\* Cap of the number of connections pending on the listening socket.
MaxBacklog == 2

\* Cap of the number of successful accept4 calls in the specification with
\* lwan_shutdown.
ShutdownAccepts == 2

(* --------------------------- derived values --------------------------- *)

Workers == 0 .. (NWorkers - 1)

\* l->thread.max_fd = r.rlim_cur / l->thread.count
max_fd == RlimCur \div NWorkers

Slots == 0 .. (RlimCur - 1)

\* The slots lwan_init gives a response buffer:
\* for (--r.rlim_cur; r.rlim_cur; --r.rlim_cur) requests[r.rlim_cur]...
BufferSlots == 1 .. (RlimCur - 1)

\* The slots whose response buffer lwan_shutdown frees:
\* for (i = max_fd * count - 1; i >= 0; --i)
FreedSlots == 0 .. (max_fd * NWorkers - 1)

\* The values of errno after a failed epoll_wait.
Errnos == {"EBADF", "EINVAL", "EINTR", "EFAULT"}

ConnFds == (RlimCur - MaxOpen) .. (RlimCur - 1)

IntMax == 2 ^ (IntBits - 1) - 1

IntMin == -(2 ^ (IntBits - 1))

\* Two's-complement wrap of a signed int of IntBits bits.
WrapInt(x) == ((x - IntMin) % (2 ^ IntBits)) + IntMin

\* C's % on ints: the quotient truncates toward zero, so the remainder has the
\* sign of the dividend.
CRem(a, b) == IF a >= 0 THEN a % b ELSE -((-a) % b)

Min(S) == CHOOSE x \in S : \A y \in S : x <= y

(* ------------------------------- state -------------------------------- *)

VARIABLES
    requests,                \* l->requests: the slot table, indexed by fd
    death_time,              \* per worker: death_time
    death_queue,             \* per worker: the int array death_queue[max_fd]
    death_queue_first,       \* per worker
    death_queue_last,        \* per worker
    death_queue_population,  \* per worker
    open,                    \* kernel: the connection descriptors that are open
    epoll,                   \* kernel: per worker, the fds in its epoll set
    counter,                 \* _schedule_request's static counter
    exited,                  \* the process has called exit(-1)
    silent,                  \* environment: the clients have gone silent
    accepted,                \* history: number of successful accept4 calls
    handed,                  \* history: per worker, connections registered with it
    processed,               \* history: per fd, the connection now on it has had
                             \*   a request processed
    main,                    \* the main thread: where it is (pc) and its loop
                             \*   index i
    epoll_fd,                \* kernel: per worker, its epoll descriptor: "open",
                             \*   "closed_in_wait" (closed while the worker's
                             \*   epoll_wait was in progress) or "closed"
    thread_done,             \* per worker: _thread has returned
    strbufs,                 \* heap: the response buffers allocated and not freed
    backlog                  \* kernel: connections pending on the listening socket

vars == <<requests, death_time, death_queue, death_queue_first, death_queue_last,
          death_queue_population, open, epoll, counter, exited, silent,
          accepted, handed, processed, main, epoll_fd, thread_done, strbufs,
          backlog>>

wvars == <<death_time, death_queue, death_queue_first, death_queue_last,
           death_queue_population>>

avars == <<counter, accepted, handed>>

\* What only lwan_shutdown and the end of a worker change.
svars == <<main, epoll_fd, thread_done, strbufs>>

(* ------------------------------- slots -------------------------------- *)

\* calloc(r.rlim_cur, sizeof(lwan_request_t)): an all-zero slot.  `filled` stands
\* for the opaque per-request state and the response buffer's contents: FALSE is
\* zeroed state and an empty buffer.  `buffer` is response.buffer: the buffer
\* object referred to, 0 for NULL.
ZeroRequest ==
    [fd |-> 0, alive |-> FALSE, is_keep_alive |-> FALSE, time_to_die |-> 0,
     filled |-> FALSE, buffer |-> 0]

\* Mutant of _reset_request: the memset without saving response.buffer.
_reset_request_memset(request, fd) == [ZeroRequest EXCEPT !.fd = fd]

\* response_buffer saved, memset to zero, fd assigned, response.buffer
\* restored and strbuf_reset (the buffer emptied).
_reset_request(request, fd) ==
    [ZeroRequest EXCEPT !.fd = fd, !.buffer = request.buffer]

\* The external request processor: it fills the per-request state and the
\* response buffer and sets is_keep_alive.
lwan_process_request(request, keep_alive) ==
    [request EXCEPT !.is_keep_alive = keep_alive, !.filled = TRUE]

(* ------------------------------ kernel -------------------------------- *)

\* close(fd) on the open-descriptor set.
CloseFd(op, fd) == op \ {fd}

\* A closed descriptor leaves every epoll set it was registered in.
EpollAfterClose(ep, closed) == [w \in Workers |-> ep[w] \ closed]

\* accept4 returns the lowest-numbered free descriptor.
NextFd == Min(ConnFds \ open)

(* ---------------------------- death queue ----------------------------- *)

\* The array indices holding the queue's entries, from head to tail.
QueueIndex(w, i) == (death_queue_first[w] + i) % max_fd

\* The queue read from head to tail: the fds named by its entries.
QueueSeq(w) ==
    [i \in 1 .. death_queue_population[w] |-> death_queue[w][QueueIndex(w, i - 1)]]

QueueEntries(w) == {QueueSeq(w)[i] : i \in 1 .. death_queue_population[w]}

\* Mutant of NotQueued: the fd is appended whether the slot is alive or not.
NotQueuedAlways(request) == TRUE

\* if (!request->alive): the slot's fd is not in the death queue yet.
NotQueued(request) == ~request.alive

\* Mutant of EpollTimeout: the worker always waits without a timeout.
EpollTimeoutNever(population) == -1

\* epoll_wait's timeout argument: death_queue_population ? 1000 : -1
EpollTimeout(population) == IF population # 0 THEN 1000 ELSE -1

(* ------------------------------- Init --------------------------------- *)

\* lwan_init and _thread's locals: calloc'ed slot table and death queues, a
\* new buffer for each slot of BufferSlots (the buffer of slot f is object f),
\* all counters 0, no connection yet, the main thread in lwan_main_loop.
Init ==
    /\ requests = [f \in Slots |->
                       [ZeroRequest EXCEPT
                           !.buffer = IF f \in BufferSlots THEN f ELSE 0]]
    /\ death_time = [w \in Workers |-> 0]
    /\ death_queue = [w \in Workers |-> [i \in 0 .. (max_fd - 1) |-> 0]]
    /\ death_queue_first = [w \in Workers |-> 0]
    /\ death_queue_last = [w \in Workers |-> 0]
    /\ death_queue_population = [w \in Workers |-> 0]
    /\ open = {}
    /\ epoll = [w \in Workers |-> {}]
    /\ counter = 0
    /\ exited = FALSE
    /\ silent = FALSE
    /\ accepted = 0
    /\ handed = [w \in Workers |-> 0]
    /\ processed = [f \in ConnFds |-> FALSE]
    /\ main = [pc |-> "main_loop", i |-> 0]
    /\ epoll_fd = [w \in Workers |-> "open"]
    /\ thread_done = [w \in Workers |-> FALSE]
    /\ strbufs = BufferSlots
    /\ backlog = 0

(* ------------------------------ acceptor ------------------------------ *)

\* counter++ % l->thread.count: the value returned (C remainder of a signed
\* int) and the counter afterwards.
_schedule_request == CRem(counter, NWorkers)

CounterAfter == WrapInt(counter + 1)

\* _push_request_fd with an index inside the threads array: epoll_ctl(ADD) on
\* that worker's epoll set.
_push_request_fd(n, fd) ==
    /\ epoll' = [epoll EXCEPT ![n] = @ \cup {fd}]
    /\ handed' = [handed EXCEPT ![n] = @ + 1]
    /\ exited' = FALSE

\* _push_request_fd with an index outside the threads array: the epoll fd is
\* read out of bounds.  epoll_ctl fails on it and the process exits, or the
\* value read happens to name some worker's epoll set.
PushOutOfBounds(fd) ==
    \/ /\ exited' = TRUE
       /\ UNCHANGED <<epoll, handed>>
    \/ \E t \in Workers : _push_request_fd(t, fd)

\* lwan_main_loop: accept4 succeeds and the new fd is pushed to the worker the
\* dispatcher selects.  The slot of the fd is not touched.  At most `limit`
\* connections are accepted.
AcceptWithin(limit) ==
    /\ ~exited
    /\ main.pc = "main_loop"
    /\ accepted < limit
    /\ ConnFds \ open # {}
    /\ LET fd == NextFd
           n == _schedule_request
       IN  /\ open' = open \cup {fd}
           /\ counter' = CounterAfter
           /\ accepted' = accepted + 1
           /\ processed' = [processed EXCEPT ![fd] = FALSE]
           /\ IF n \in Workers
              THEN _push_request_fd(n, fd)
              ELSE PushOutOfBounds(fd)
    /\ UNCHANGED <<requests, wvars, silent, svars>>

\* A connection arrives and is accepted at once: nothing stays pending.
Accept == AcceptWithin(MaxAccepts) /\ UNCHANGED backlog

\* Mutant of BacklogAfter: the acceptor has drained the listening socket.
BacklogAfterDrained(pending) == 0

\* The connections still pending after the acceptor has handled one readiness
\* event of its epoll_wait (n_fds = 1: the listening socket is the only
\* descriptor of the acceptor's epoll set): one accept4 call.
BacklogAfter(pending) == pending - 1

\* lwan_main_loop: one readiness event of the listening socket, which has
\* connections pending; accept4 succeeds.
AcceptEvent ==
    /\ backlog > 0
    /\ AcceptWithin(FairAccepts)
    /\ backlog' = BacklogAfter(backlog)

\* lwan_main_loop: accept4 fails; perror and continue, the dispatcher is not
\* called.
AcceptFail ==
    /\ ~exited
    /\ main.pc = "main_loop"
    /\ UNCHANGED vars

(* ------------------------------- worker ------------------------------- *)

\* The worker's epoll_wait returns a timeout or an event: the thread runs and
\* its epoll descriptor is open, or was closed while this call was in
\* progress (a call in progress keeps the epoll instance in use; the next call
\* finds the descriptor closed).
WaitReturns(w) ==
    /\ ~thread_done[w]
    /\ epoll_fd[w] # "closed"
    /\ epoll_fd' = [epoll_fd EXCEPT
                        ![w] = IF @ = "closed_in_wait" THEN "closed" ELSE @]
    /\ UNCHANGED <<main, thread_done, strbufs, backlog>>

\* The slot handed to lwan_process_request for an event on fd: reset unless it
\* is marked alive.
SlotHanded(fd) ==
    IF ~requests[fd].alive THEN _reset_request(requests[fd], fd) ELSE requests[fd]

\* The close() calls of a request step on fd: one when the connection is not
\* kept, none when it is.
RequestCloses(fd, keep_alive) == IF keep_alive THEN <<>> ELSE <<fd>>

\* _thread, default case, an event without EPOLLRDHUP or EPOLLHUP on fd: reset
\* the slot unless it is alive, process the request, then either keep the
\* connection (deadline, and append to the death queue unless alive) or close
\* it and mark the slot not alive.
Request(w, fd, keep_alive) ==
    /\ ~exited
    /\ ~silent
    /\ WaitReturns(w)
    /\ fd \in epoll[w]
    /\ death_time[w] < MaxTick
    /\ death_time[w] + KeepAliveTimeout <= MaxTick
    /\ LET request == lwan_process_request(SlotHanded(fd), keep_alive)
       IN  IF request.is_keep_alive
           THEN /\ requests' =
                       [requests EXCEPT ![fd] =
                           [request EXCEPT
                               !.time_to_die = death_time[w] + KeepAliveTimeout,
                               !.alive = TRUE]]
                /\ IF NotQueued(request)
                   THEN /\ death_queue' =
                               [death_queue EXCEPT ![w][death_queue_last[w]] = fd]
                        /\ death_queue_population' =
                               [death_queue_population EXCEPT ![w] = @ + 1]
                        /\ death_queue_last' =
                               [death_queue_last EXCEPT ![w] = (@ + 1) % max_fd]
                   ELSE UNCHANGED <<death_queue, death_queue_population,
                                    death_queue_last>>
                /\ UNCHANGED <<open, epoll>>
           ELSE /\ requests' = [requests EXCEPT ![fd] = [request EXCEPT !.alive = FALSE]]
                /\ open' = CloseFd(open, fd)
                /\ epoll' = EpollAfterClose(epoll, {fd})
                /\ UNCHANGED <<death_queue, death_queue_population, death_queue_last>>
    /\ processed' = [processed EXCEPT ![fd] = TRUE]
    /\ UNCHANGED <<death_time, death_queue_first, avars, exited, silent>>

\* _thread, default case, an event with EPOLLRDHUP or EPOLLHUP on fd:
\* epoll_ctl(EPOLL_CTL_DEL), then goto invalidate_request, which is past the
\* close() call.
Hup(w, fd) ==
    /\ ~exited
    /\ ~silent
    /\ WaitReturns(w)
    /\ fd \in epoll[w]
    /\ epoll' = [epoll EXCEPT ![w] = @ \ {fd}]
    /\ requests' = [requests EXCEPT ![fd].alive = FALSE]
    /\ UNCHANGED <<wvars, open, avars, exited, silent, processed>>

\* _thread, case 0, the while loop, from a state st of the loop: pop the head
\* while the slot it names has time_to_die <= death_time.  st also collects
\* the slots the loop reads and the arguments of its close() calls, with the
\* descriptors that were open when closed.
RECURSIVE Reap(_, _, _)
Reap(w, dt, st) ==
    IF st.population = 0
    THEN st
    ELSE LET slot == death_queue[w][st.first]
             request == st.reqs[slot]
         IN  IF request.time_to_die <= dt
             THEN Reap(w, dt,
                       [first |-> (st.first + 1) % max_fd,
                        population |-> st.population - 1,
                        reqs |-> [st.reqs EXCEPT ![slot].alive = FALSE],
                        open |-> CloseFd(st.open, request.fd),
                        closed |-> Append(st.closed, request.fd),
                        live |-> IF request.fd \in st.open
                                 THEN st.live \cup {request.fd}
                                 ELSE st.live,
                        touched |-> st.touched \cup {slot}])
             ELSE [st EXCEPT !.touched = @ \cup {slot}]

\* The loop run from the worker's current state at tick dt.
Reaped(w, dt) ==
    Reap(w, dt,
         [first |-> death_queue_first[w],
          population |-> death_queue_population[w],
          reqs |-> requests, open |-> open, closed |-> <<>>, live |-> {},
          touched |-> {}])

\* _thread, case 0: epoll_wait timed out (it can only with a non-empty death
\* queue); death_time++ and the reaping loop.
Timeout(w) ==
    /\ ~exited
    /\ WaitReturns(w)
    /\ EpollTimeout(death_queue_population[w]) # -1
    /\ death_time[w] < MaxTick
    /\ LET dt == death_time[w] + 1
           st == Reaped(w, dt)
       IN  /\ death_time' = [death_time EXCEPT ![w] = dt]
           /\ death_queue_first' = [death_queue_first EXCEPT ![w] = st.first]
           /\ death_queue_population' =
                  [death_queue_population EXCEPT ![w] = st.population]
           /\ requests' = st.reqs
           /\ open' = st.open
           /\ epoll' = EpollAfterClose(epoll, st.live)
    /\ UNCHANGED <<death_queue, death_queue_last, avars, exited, silent, processed>>

\* Mutant of ExitsLoop: any error of epoll_wait ends the worker.
ExitsLoopAlways(errno) == TRUE

\* switch (errno): case EBADF: case EINVAL: goto epoll_fd_closed.
ExitsLoop(errno) == errno \in {"EBADF", "EINVAL"}

\* _thread, case -1: epoll_wait fails with errno.  EBADF and EINVAL come from a
\* closed epoll descriptor; a call on a closed descriptor fails with nothing
\* else, a signal or another error ends a call that was waiting.  The worker
\* leaves the loop (free(death_queue); return NULL) or continues.
EpollWaitError(w, errno) ==
    /\ ~exited
    /\ ~thread_done[w]
    /\ IF errno \in {"EBADF", "EINVAL"}
       THEN epoll_fd[w] # "open"
       ELSE epoll_fd[w] # "closed"
    /\ IF ExitsLoop(errno)
       THEN /\ thread_done' = [thread_done EXCEPT ![w] = TRUE]
            /\ UNCHANGED epoll_fd
       ELSE /\ epoll_fd' = [epoll_fd EXCEPT
                               ![w] = IF @ = "closed_in_wait" THEN "closed" ELSE @]
            /\ UNCHANGED thread_done
    /\ UNCHANGED <<requests, wvars, open, epoll, avars, exited, silent, processed,
                   main, strbufs, backlog>>

\* epoll_wait called on a closed epoll descriptor: it fails at once.
WaitOnClosed(w) ==
    /\ epoll_fd[w] = "closed"
    /\ \E errno \in {"EBADF", "EINVAL"} : EpollWaitError(w, errno)

(* ---------------------------- main thread ----------------------------- *)

\* SIGINT: _cleanup longjmps, lwan_main_loop returns and lwan_shutdown starts
\* with _thread_shutdown's first loop at i = thread.count - 1.
Sigint ==
    /\ ~exited
    /\ main.pc = "main_loop"
    /\ main' = [pc |-> "close_epoll_fd", i |-> NWorkers - 1]
    /\ UNCHANGED <<requests, wvars, open, epoll, avars, exited, silent, processed,
                   epoll_fd, thread_done, strbufs, backlog>>

\* _thread_shutdown, first loop: close(threads[i].epoll_fd).  The worker is in
\* epoll_wait on that descriptor (between two steps a worker is in that call).
\* Closing a descriptor another thread is using in a system call is
\* unspecified: the call may fail at once (EpollWaitError) or go on as if
\* nothing had happened, returning events, a timeout, or never.
CloseEpollFd ==
    /\ ~exited
    /\ main.pc = "close_epoll_fd"
    /\ epoll_fd' = [epoll_fd EXCEPT ![main.i] = "closed_in_wait"]
    /\ main' = IF main.i > 0
               THEN [main EXCEPT !.i = @ - 1]
               ELSE [pc |-> "pthread_join", i |-> NWorkers - 1]
    /\ UNCHANGED <<requests, wvars, open, epoll, avars, exited, silent, processed,
                   thread_done, strbufs, backlog>>

\* _thread_shutdown, second loop: pthread_join(threads[i].id) returns once
\* that worker has returned; after the last one free(threads).
Join ==
    /\ ~exited
    /\ main.pc = "pthread_join"
    /\ thread_done[main.i]
    /\ main' = IF main.i > 0
               THEN [main EXCEPT !.i = @ - 1]
               ELSE [pc |-> "socket_shutdown", i |-> 0]
    /\ UNCHANGED <<requests, wvars, open, epoll, avars, exited, silent, processed,
                   epoll_fd, thread_done, strbufs, backlog>>

\* _socket_shutdown: shutdown() and close() of the listening socket, or
\* exit(-4) when shutdown() fails.
SocketShutdown ==
    /\ ~exited
    /\ main.pc = "socket_shutdown"
    /\ \/ /\ main' = [pc |-> "free_buffers", i |-> 0]
          /\ backlog' = 0
          /\ UNCHANGED exited
       \/ /\ exited' = TRUE
          /\ UNCHANGED <<main, backlog>>
    /\ UNCHANGED <<requests, wvars, open, epoll, avars, silent, processed,
                   epoll_fd, thread_done, strbufs>>

\* lwan_shutdown: lwan_trie_destroy, then strbuf_free of the response buffer
\* of every slot of FreedSlots.
FreeBuffers ==
    /\ ~exited
    /\ main.pc = "free_buffers"
    /\ strbufs' = strbufs \ {requests[i].buffer : i \in FreedSlots}
    /\ main' = [pc |-> "free_requests", i |-> 0]
    /\ UNCHANGED <<requests, wvars, open, epoll, avars, exited, silent, processed,
                   epoll_fd, thread_done, backlog>>

\* lwan_shutdown: free(l->requests) and return.
FreeRequests ==
    /\ ~exited
    /\ main.pc = "free_requests"
    /\ main' = [pc |-> "returned", i |-> 0]
    /\ UNCHANGED <<requests, wvars, open, epoll, avars, exited, silent, processed,
                   epoll_fd, thread_done, strbufs, backlog>>

\* The steps of lwan_shutdown.
Shutdown ==
    \/ CloseEpollFd
    \/ Join
    \/ SocketShutdown
    \/ FreeBuffers
    \/ FreeRequests

(* ----------------------------- environment ---------------------------- *)

\* A client connects: the connection waits on the listening socket until the
\* acceptor accepts it.
Connect ==
    /\ ~exited
    /\ main.pc = "main_loop"
    /\ backlog < MaxBacklog
    /\ backlog' = backlog + 1
    /\ UNCHANGED <<requests, wvars, open, epoll, avars, exited, silent, processed,
                   svars>>

\* The clients stop sending: no readiness event reaches any worker any more.
GoSilent ==
    /\ ~exited
    /\ ~silent
    /\ silent' = TRUE
    /\ UNCHANGED <<requests, wvars, open, epoll, avars, exited, processed, svars,
                   backlog>>

(* ---------------------------- specification --------------------------- *)

Next ==
    \/ Accept
    \/ AcceptFail
    \/ \E w \in Workers, fd \in ConnFds, keep_alive \in BOOLEAN :
           Request(w, fd, keep_alive)
    \/ \E w \in Workers, fd \in ConnFds : Hup(w, fd)
    \/ \E w \in Workers : Timeout(w)

Spec == Init /\ [][Next]_vars

\* The same program with clients that may go silent, and the 1000 ms timeout
\* of epoll_wait firing whenever no event arrives.
AcceptFair == AcceptWithin(FairAccepts) /\ UNCHANGED backlog

NextSilent ==
    \/ AcceptFair
    \/ AcceptFail
    \/ \E w \in Workers, fd \in ConnFds, keep_alive \in BOOLEAN :
           Request(w, fd, keep_alive)
    \/ \E w \in Workers, fd \in ConnFds : Hup(w, fd)
    \/ \E w \in Workers : Timeout(w)
    \/ GoSilent

SpecFair ==
    Init /\ [][NextSilent]_vars /\ \A w \in Workers : WF_vars(Timeout(w))

\* The program with connections that wait on the listening socket until the
\* acceptor accepts them.
NextPending ==
    \/ Connect
    \/ AcceptEvent
    \/ AcceptFail
    \/ \E w \in Workers, fd \in ConnFds, keep_alive \in BOOLEAN :
           Request(w, fd, keep_alive)
    \/ \E w \in Workers, fd \in ConnFds : Hup(w, fd)
    \/ \E w \in Workers : Timeout(w)

SpecPending == Init /\ [][NextPending]_vars

\* The program from start to the return of lwan_shutdown: SIGINT ends the main
\* loop.  The main thread keeps running, a timeout of epoll_wait fires when no
\* event arrives, and epoll_wait called on a closed descriptor returns.
AcceptShutdown == AcceptWithin(ShutdownAccepts) /\ UNCHANGED backlog

NextShutdown ==
    \/ AcceptShutdown
    \/ AcceptFail
    \/ \E w \in Workers, fd \in ConnFds, keep_alive \in BOOLEAN :
           Request(w, fd, keep_alive)
    \/ \E w \in Workers, fd \in ConnFds : Hup(w, fd)
    \/ \E w \in Workers : Timeout(w)
    \/ \E w \in Workers, errno \in Errnos : EpollWaitError(w, errno)
    \/ Sigint
    \/ Shutdown

SpecShutdown ==
    /\ Init
    /\ [][NextShutdown]_vars
    /\ WF_vars(Shutdown)
    /\ \A w \in Workers : WF_vars(Timeout(w))
    /\ \A w \in Workers : WF_vars(WaitOnClosed(w))

TypeOK ==
    /\ requests \in [Slots -> [fd : Slots, alive : BOOLEAN, is_keep_alive : BOOLEAN,
                               time_to_die : 0 .. MaxTick, filled : BOOLEAN,
                               buffer : Slots]]
    /\ main \in [pc : {"main_loop", "close_epoll_fd", "pthread_join",
                        "socket_shutdown", "free_buffers", "free_requests",
                        "returned"},
                  i : Workers]
    /\ epoll_fd \in [Workers -> {"open", "closed_in_wait", "closed"}]
    /\ thread_done \in [Workers -> BOOLEAN]
    /\ strbufs \subseteq BufferSlots
    /\ backlog \in 0 .. MaxBacklog
    /\ death_time \in [Workers -> 0 .. MaxTick]
    /\ death_queue \in [Workers -> [0 .. (max_fd - 1) -> Slots]]
    /\ death_queue_first \in [Workers -> 0 .. (max_fd - 1)]
    /\ death_queue_last \in [Workers -> 0 .. (max_fd - 1)]
    /\ death_queue_population \in [Workers -> 0 .. MaxAccepts]
    /\ open \subseteq ConnFds
    /\ epoll \in [Workers -> SUBSET open]
    /\ counter \in IntMin .. IntMax
    /\ accepted \in 0 .. MaxAccepts
    /\ \A f \in ConnFds : requests[f].fd \in {0, f}

(* ------------------------- observations of a step --------------------- *)

\* The places <<w, i>> of all death queues that name fd f.
QueuePlaces(f) ==
    UNION {{<<w, i>> : i \in {j \in 1 .. death_queue_population[w] :
                                  QueueSeq(w)[j] = f}} : w \in Workers}

\* What the reaping loop of worker w does at its next timeout.
NextReap(w) == Reaped(w, death_time[w] + 1)

(* ------------------------------- claims ------------------------------- *)

\* C1: in every reachable state a slot is alive if and only if its fd is named
\* by exactly one death queue entry.
C1_AliveIffQueuedOnce ==
    \A f \in Slots :
        requests[f].alive <=> Cardinality(QueuePlaces(requests[f].fd)) = 1

\* C2: in every reachable state the time_to_die of the slots named by a death
\* queue, read from head to tail, is non-decreasing.
C2_QueueSortedByDeadline ==
    \A w \in Workers :
        \A i, j \in 1 .. death_queue_population[w] :
            i < j =>
                requests[QueueSeq(w)[i]].time_to_die
                    <= requests[QueueSeq(w)[j]].time_to_die

\* C3: an fd is in at most one worker's epoll set, and a worker's timeout step
\* reads or writes no slot whose fd is registered with another worker.
C3_SlotTouchedByOwnerOnly ==
    [][/\ \A f \in ConnFds : Cardinality({w \in Workers : f \in epoll[w]}) <= 1
       /\ \A w \in Workers :
              Timeout(w) =>
                  \A f \in NextReap(w).touched :
                      \A o \in Workers \ {w} : f \notin epoll[o]]_vars

\* C4: every invocation of the request processor is handed a freshly reset
\* slot: zeroed per-request state, empty buffer, only the fd set.
C4_ResetBeforeEveryRequest ==
    [][\A w \in Workers, fd \in ConnFds, keep_alive \in BOOLEAN :
           Request(w, fd, keep_alive) =>
               SlotHanded(fd) = _reset_request(requests[fd], fd)]_vars

\* C5: after K successful accepts every worker has been handed floor(K/N) or
\* ceil(K/N) connections.
C5_RoundRobinFair ==
    \A w \in Workers :
        /\ handed[w] >= accepted \div NWorkers
        /\ handed[w] <= (accepted + NWorkers - 1) \div NWorkers

\* C6: at a timeout tick of worker w, every idle keep-alive connection of w
\* whose time_to_die is <= the new death_time is closed by that tick.
C6_ReapedAtDeadline ==
    [][\A w \in Workers :
           Timeout(w) =>
               \A f \in epoll[w] :
                   (/\ processed[f]
                    /\ requests[f].alive
                    /\ requests[f].time_to_die <= death_time'[w])
                       => f \notin open']_vars

\* C7: whenever the timeout path of worker w closes an open descriptor, the
\* connection on it has had a request processed, belongs to no other worker,
\* and its time_to_die is <= w's death_time.
C7_ReaperClosesOnlyExpired ==
    [][\A w \in Workers :
           Timeout(w) =>
               \A f \in NextReap(w).live :
                   /\ processed[f]
                   /\ \A o \in Workers \ {w} : f \notin epoll[o]
                   /\ requests[f].time_to_die <= death_time'[w]]_vars

\* C8: a hang-up event on fd removes it from the worker's epoll set, closes it
\* and marks the slot not alive, in that step, without processing a request.
C8_HupClosesFd ==
    [][\A w \in Workers, fd \in ConnFds :
           Hup(w, fd) =>
               /\ fd \notin epoll'[w]
               /\ fd \notin open'
               /\ ~requests'[fd].alive
               /\ requests'[fd].filled = requests[fd].filled]_vars

\* C9: when a request step closes fd because keep_alive is false, the fd has no
\* entry in the worker's death queue, and no later close() of the reaper hits a
\* descriptor that is already closed.
C9_ClosedOnceAndNotQueued ==
    [][/\ \A w \in Workers, fd \in ConnFds :
              Request(w, fd, FALSE) =>
                  /\ fd \notin open'
                  /\ RequestCloses(fd, FALSE) = <<fd>>
                  /\ fd \notin QueueEntries(w)'
       /\ \A w \in Workers :
              Timeout(w) =>
                  Len(NextReap(w).closed) = Cardinality(NextReap(w).live)]_vars

\* C10: once the clients are silent, every death queue becomes empty (unless
\* the process exits), and each fd the reaper takes from a queue is closed by
\* that step; a worker ticks only with a non-empty queue, and under silence an
\* empty queue stays empty, so no further tick follows.
C10_IdleReapLiveness ==
    /\ silent ~> ((\A w \in Workers : death_queue_population[w] = 0) \/ exited)
    /\ [][\A w \in Workers :
              /\ death_time'[w] # death_time[w] => death_queue_population[w] > 0
              /\ (silent /\ death_queue_population[w] = 0)
                     => death_queue_population'[w] = 0
              /\ Timeout(w) =>
                     \A i \in 1 .. (death_queue_population[w]
                                        - death_queue_population'[w]) :
                         QueueSeq(w)[i] \notin open']_vars

\* C10 witness: silent clients, a worker that has ticked up to a deadline, its
\* queue empty and a slot it reaped closed.
C10_Witness ==
    /\ silent
    /\ ~exited
    /\ \E w \in Workers, f \in ConnFds :
           /\ death_queue_population[w] = 0
           /\ death_time[w] >= KeepAliveTimeout
           /\ requests[f].is_keep_alive
           /\ requests[f].time_to_die = death_time[w]
           /\ ~requests[f].alive
           /\ f \notin open

\* C11: once lwan_shutdown has started, no buffer and no slot table is freed
\* and the listening socket is not closed before every worker has returned,
\* and lwan_shutdown eventually returns (or the process exits), whether a
\* worker was waiting with the 1000 ms timeout or without a timeout.
C11_ShutdownJoinsAndReturns ==
    /\ [](main.pc \in {"socket_shutdown", "free_buffers", "free_requests",
                       "returned"}
              => \A w \in Workers : thread_done[w])
    /\ (main.pc # "main_loop") ~> (main.pc = "returned" \/ exited)

\* C12: when lwan_shutdown has freed the buffers, every slot of the table had
\* been given a buffer by lwan_init and every buffer has been freed.
C12_BuffersAllocatedAndFreed ==
    main.pc \in {"free_requests", "returned"} =>
        /\ {f \in Slots : requests[f].buffer # 0} = Slots
        /\ strbufs = {}

\* C13: no step of a worker or of the acceptor changes the buffer object a
\* slot's response.buffer refers to, and the slot _reset_request hands to the
\* request processor refers to the buffer the slot had.
C13_BufferReferenceKept ==
    [][/\ \A f \in Slots : requests'[f].buffer = requests[f].buffer
       /\ \A w \in Workers, fd \in ConnFds, keep_alive \in BOOLEAN :
              Request(w, fd, keep_alive) =>
                  /\ SlotHanded(fd).buffer = requests[fd].buffer
                  /\ requests[fd].buffer \in strbufs']_vars

\* C13 witness: a slot that was reset, processed and closed again still
\* refers to the buffer lwan_init gave it.
C13_Witness ==
    \E f \in ConnFds :
        /\ requests[f].fd = f
        /\ requests[f].filled
        /\ ~requests[f].alive
        /\ f \notin open
        /\ requests[f].buffer = f
        /\ f \in strbufs

\* C14: the reaping loop of a timeout closes through a head entry only when
\* the slot it names is alive, has time_to_die <= death_time, holds the
\* entry's fd and that fd is open.
C14_ReaperClosesGuarded ==
    [][\A w \in Workers :
           Timeout(w) =>
               \A i \in 1 .. Len(NextReap(w).closed) :
                   LET entry == QueueSeq(w)[i]
                   IN  /\ requests[entry].alive
                       /\ requests[entry].time_to_die <= death_time'[w]
                       /\ requests[entry].fd = entry
                       /\ entry \in open]_vars

\* C15: a timeout adds exactly 1 to death_time and takes from the head exactly
\* the longest run of entries whose slot has time_to_die <= death_time, marks
\* those slots not alive and closes their fds; the first entry with a later
\* time_to_die and all entries behind it stay, and their slots are unchanged.
C15_ReapsMaximalExpiredPrefix ==
    [][\A w \in Workers :
           Timeout(w) =>
               LET dt == death_time[w] + 1
                   queue == QueueSeq(w)
                   n == death_queue_population[w] - death_queue_population'[w]
               IN  /\ death_time'[w] = dt
                   /\ n \in 0 .. Len(queue)
                   /\ \A i \in 1 .. n :
                          /\ requests[queue[i]].time_to_die <= dt
                          /\ ~requests'[queue[i]].alive
                          /\ requests[queue[i]].fd \notin open'
                   /\ n < Len(queue) => requests[queue[n + 1]].time_to_die > dt
                   /\ \A i \in (n + 1) .. Len(queue) :
                          /\ QueueSeq(w)'[i - n] = queue[i]
                          /\ requests'[queue[i]] = requests[queue[i]]]_vars

\* C16: a request with keep_alive true on a slot that is alive changes only
\* that slot's time_to_die: no death queue array, head, tail or count changes;
\* on a slot that is not alive the fd is appended at the tail, the count goes
\* up by one and the slot becomes alive.
C16_KeepAliveOnAliveSlot ==
    [][\A w \in Workers, fd \in ConnFds :
           Request(w, fd, TRUE) =>
               /\ requests'[fd].time_to_die = death_time[w] + KeepAliveTimeout
               /\ requests'[fd].alive
               /\ \A f \in Slots \ {fd} : requests'[f] = requests[f]
               /\ IF requests[fd].alive
                  THEN /\ death_queue' = death_queue
                       /\ death_queue_first' = death_queue_first
                       /\ death_queue_last' = death_queue_last
                       /\ death_queue_population' = death_queue_population
                       /\ requests'[fd].fd = requests[fd].fd
                  ELSE /\ death_queue' =
                              [death_queue EXCEPT ![w][death_queue_last[w]] = fd]
                       /\ death_queue_first' = death_queue_first
                       /\ death_queue_last' =
                              [death_queue_last EXCEPT ![w] = (@ + 1) % max_fd]
                       /\ death_queue_population' =
                              [death_queue_population EXCEPT ![w] = @ + 1]]_vars

\* C16 witness: the only connection accepted so far was queued at tick 0 and,
\* after a tick, had its time_to_die moved by a second keep-alive request; the
\* queue still holds one entry.
C16_Witness ==
    \E w \in Workers, f \in ConnFds :
        /\ accepted = 1
        /\ death_time[w] = 1
        /\ requests[f].alive
        /\ requests[f].time_to_die = 1 + KeepAliveTimeout
        /\ death_queue_population[w] = 1
        /\ QueueSeq(w) = <<f>>

\* C17: when epoll_wait fails the worker returns if and only if errno is EBADF
\* or EINVAL; with any other errno it continues and its death_time, its death
\* queue, the slots and the open descriptors are unchanged.
C17_ExitsOnClosedEpollOnly ==
    [][\A w \in Workers, errno \in Errnos :
           EpollWaitError(w, errno) =>
               /\ thread_done'[w] <=> errno \in {"EBADF", "EINVAL"}
               /\ errno \notin {"EBADF", "EINVAL"} =>
                      /\ death_time' = death_time
                      /\ death_queue' = death_queue
                      /\ death_queue_first' = death_queue_first
                      /\ death_queue_last' = death_queue_last
                      /\ death_queue_population' = death_queue_population
                      /\ requests' = requests
                      /\ open' = open]_vars

\* C17 witness: one worker has returned after its epoll descriptor was closed;
\* another one, which never had a connection, got another error from the call
\* that was in progress, continued, and is about to call epoll_wait on the
\* closed descriptor.
C17_Witness ==
    \E w, o \in Workers :
        /\ thread_done[w]
        /\ ~thread_done[o]
        /\ epoll_fd[o] = "closed"
        /\ accepted = 0

C19_QueueWithinCapacity ==
    \A w \in Workers :
        /\ death_queue_population[w] >= 0
        /\ death_queue_population[w] <= max_fd
        /\ death_queue_last[w] =
               (death_queue_first[w] + death_queue_population[w]) % max_fd

\* C20: in every reachable state the index the next call of _schedule_request
\* returns is one of 0 .. thread.count - 1.
C20_WorkerIndexInRange == _schedule_request \in Workers

====
